---- MODULE Spec2Model ----
(***************************************************************************)
(* A model of the `status` builtin of fish (src/builtins/status.cpp).      *)
(*                                                                         *)
(* One invocation of builtin_status is modelled step by step:              *)
(*   Invoke      the builtin is entered with an argument vector            *)
(*   ParseOpt    one iteration of the wgetopt_long loop of parse_cmd_opts  *)
(*   Resolve     the code between parse_cmd_opts and the switch            *)
(*   Dispatch*   one case of the switch on opts.status_cmd                 *)
(*   Return      the builtin returns, its locals die                       *)
(* job_control_mode is the process-wide mode; it outlives an invocation.   *)
(* Calls into the rest of the shell (get_login, parser.is_block, ...) are  *)
(* recorded in `calls` with the value the collaborator answered, which is  *)
(* drawn from a small set at the call.                                     *)
(***************************************************************************)
EXTENDS Integers, Sequences, FiniteSets, TLC

VARIABLES
    job_control_mode,   \* process-wide job control mode (get/set_job_control_mode)
    entry_mode,         \* history: job_control_mode when the invocation was entered
    pc,                 \* position in builtin_status
    argv,               \* the argument vector, argv[0] = "status"
    woptind,            \* wgetopter_t::woptind, index of the next argv element to scan
    opts,               \* status_cmd_opts_t
    optind,             \* optind of builtin_status
    args,               \* the arguments left for the subcommand
    retval,             \* the exit code
    out,                \* streams.out, one entry per line
    err,                \* streams.err, one entry per message
    calls               \* calls made into the rest of the shell, with their answers

vars == <<job_control_mode, entry_mode, pc, argv, woptind, opts, optind, args,
          retval, out, err, calls>>

---------------------------------------------------------------------------
(* Bounds of the model. *)

\* The units of a generated argv: each flag (with its value, when it takes
\* one), the subcommand word and each argument after it count as one.
MaxUnits == 2

---------------------------------------------------------------------------
(* Exit codes. *)

STATUS_CMD_OK == 0
STATUS_CMD_ERROR == 1
STATUS_INVALID_ARGS == 2

TEST_FEATURE_ON == 0
TEST_FEATURE_OFF == 1
TEST_FEATURE_NOT_RECOGNIZED == 2

None == "none()"

---------------------------------------------------------------------------
(* status_cmd_t and the alias table. *)

STATUS_UNDEF == "STATUS_UNDEF"

status_enum_map ==
    << [val |-> "STATUS_BASENAME",                str |-> "basename"],
       [val |-> "STATUS_BASENAME",                str |-> "current-basename"],
       [val |-> "STATUS_CURRENT_CMD",             str |-> "current-command"],
       [val |-> "STATUS_CURRENT_COMMANDLINE",     str |-> "current-commandline"],
       [val |-> "STATUS_DIRNAME",                 str |-> "current-dirname"],
       [val |-> "STATUS_FILENAME",                str |-> "current-filename"],
       [val |-> "STATUS_FUNCTION",                str |-> "current-function"],
       [val |-> "STATUS_LINE_NUMBER",             str |-> "current-line-number"],
       [val |-> "STATUS_DIRNAME",                 str |-> "dirname"],
       [val |-> "STATUS_FEATURES",                str |-> "features"],
       [val |-> "STATUS_FILENAME",                str |-> "filename"],
       [val |-> "STATUS_FISH_PATH",               str |-> "fish-path"],
       [val |-> "STATUS_FUNCTION",                str |-> "function"],
       [val |-> "STATUS_IS_BLOCK",                str |-> "is-block"],
       [val |-> "STATUS_IS_BREAKPOINT",           str |-> "is-breakpoint"],
       [val |-> "STATUS_IS_COMMAND_SUB",          str |-> "is-command-substitution"],
       [val |-> "STATUS_IS_FULL_JOB_CTRL",        str |-> "is-full-job-control"],
       [val |-> "STATUS_IS_INTERACTIVE",          str |-> "is-interactive"],
       [val |-> "STATUS_IS_INTERACTIVE_JOB_CTRL", str |-> "is-interactive-job-control"],
       [val |-> "STATUS_IS_LOGIN",                str |-> "is-login"],
       [val |-> "STATUS_IS_NO_JOB_CTRL",          str |-> "is-no-job-control"],
       [val |-> "STATUS_SET_JOB_CONTROL",         str |-> "job-control"],
       [val |-> "STATUS_LINE_NUMBER",             str |-> "line-number"],
       [val |-> "STATUS_STACK_TRACE",             str |-> "print-stack-trace"],
       [val |-> "STATUS_STACK_TRACE",             str |-> "stack-trace"],
       [val |-> "STATUS_TEST_FEATURE",            str |-> "test-feature"] >>

\* The entries of the table that hold `name` / the value `val`.
EntriesNamed(name) == {i \in DOMAIN status_enum_map : status_enum_map[i].str = name}
EntriesOf(val) == {i \in DOMAIN status_enum_map : status_enum_map[i].val = val}

\* str_to_enum (enum_map.h): the value of the entry called `name`, else the
\* value of the terminating entry, STATUS_UNDEF.
str_to_enum(name) ==
    IF EntriesNamed(name) = {} THEN STATUS_UNDEF
    ELSE status_enum_map[CHOOSE i \in EntriesNamed(name) : TRUE].val

\* enum_to_str (enum_map.h): the name of the first entry with the value, else null.
enum_to_str(val) ==
    IF EntriesOf(val) = {} THEN None
    ELSE status_enum_map[CHOOSE i \in EntriesOf(val) : \A j \in EntriesOf(val) : i <= j].str

---------------------------------------------------------------------------
(* The flag specification. *)

\* short_options, each with whether it takes a value
short_options ==
    { [name |-> "-L", has_arg |-> TRUE,  val |-> "L"],
      [name |-> "-c", has_arg |-> FALSE, val |-> "c"],
      [name |-> "-b", has_arg |-> FALSE, val |-> "b"],
      [name |-> "-i", has_arg |-> FALSE, val |-> "i"],
      [name |-> "-l", has_arg |-> FALSE, val |-> "l"],
      [name |-> "-f", has_arg |-> FALSE, val |-> "f"],
      [name |-> "-n", has_arg |-> FALSE, val |-> "n"],
      [name |-> "-h", has_arg |-> FALSE, val |-> "h"],
      [name |-> "-j", has_arg |-> TRUE,  val |-> "j"],
      [name |-> "-t", has_arg |-> FALSE, val |-> "t"] }

long_options ==
    { [name |-> "--help",                       has_arg |-> FALSE, val |-> "h"],
      [name |-> "--current-filename",           has_arg |-> FALSE, val |-> "f"],
      [name |-> "--current-line-number",        has_arg |-> FALSE, val |-> "n"],
      [name |-> "--filename",                   has_arg |-> FALSE, val |-> "f"],
      [name |-> "--fish-path",                  has_arg |-> FALSE, val |-> "STATUS_FISH_PATH"],
      [name |-> "--is-block",                   has_arg |-> FALSE, val |-> "b"],
      [name |-> "--is-command-substitution",    has_arg |-> FALSE, val |-> "c"],
      [name |-> "--is-full-job-control",        has_arg |-> FALSE, val |-> "STATUS_IS_FULL_JOB_CTRL"],
      [name |-> "--is-interactive",             has_arg |-> FALSE, val |-> "i"],
      [name |-> "--is-interactive-job-control", has_arg |-> FALSE, val |-> "STATUS_IS_INTERACTIVE_JOB_CTRL"],
      [name |-> "--is-login",                   has_arg |-> FALSE, val |-> "l"],
      [name |-> "--is-no-job-control",          has_arg |-> FALSE, val |-> "STATUS_IS_NO_JOB_CTRL"],
      [name |-> "--job-control",                has_arg |-> TRUE,  val |-> "j"],
      [name |-> "--level",                      has_arg |-> TRUE,  val |-> "L"],
      [name |-> "--line",                       has_arg |-> FALSE, val |-> "n"],
      [name |-> "--line-number",                has_arg |-> FALSE, val |-> "n"],
      [name |-> "--print-stack-trace",          has_arg |-> FALSE, val |-> "t"] }

\* Argument elements that begin with a dash but name no option.
UnknownOptions == {"--bogus"}

\* Whether an argv element is an option element (begins with a dash).
IsOptionElement(tok) ==
    tok \in {o.name : o \in short_options \cup long_options} \cup UnknownOptions

Argc(av) == Cardinality(DOMAIN av)

\* One call of wgetopter_t::wgetopt_long (wgetopt.cpp) with the scan at index
\* `ind`: the option found, its value, and the index after it.  -1 at the end
\* of argv and at the first element that is no option; '?' for an unknown
\* option; ':' for an option whose value is missing (short_options begins
\* with ':').  No generated argv holds an option after a non-option element,
\* so the reordering wgetopt_long may do never applies.
wgetopt_long(av, ind) ==
    IF ind >= Argc(av) \/ ~IsOptionElement(av[ind])
    THEN [opt |-> "-1", woptarg |-> None, woptind |-> ind]
    ELSE LET found == {o \in short_options \cup long_options : o.name = av[ind]} IN
         IF found = {}
         THEN [opt |-> "?", woptarg |-> None, woptind |-> ind + 1]
         ELSE LET o == CHOOSE x \in found : TRUE IN
              IF ~o.has_arg
              THEN [opt |-> o.val, woptarg |-> None, woptind |-> ind + 1]
              ELSE IF ind + 1 < Argc(av)
              THEN [opt |-> o.val, woptarg |-> av[ind + 1], woptind |-> ind + 2]
              ELSE [opt |-> ":", woptarg |-> None, woptind |-> ind + 1]

\* fish_wcstoi (wutil.cpp): the value and the errno it leaves.
fish_wcstoi(str) ==
    CASE str = "0"  -> [val |-> 0,  errno |-> "0"]
      [] str = "1"  -> [val |-> 1,  errno |-> "0"]
      [] str = "2"  -> [val |-> 2,  errno |-> "0"]
      [] str = "-1" -> [val |-> -1, errno |-> "0"]
      [] str = "99999999999" -> [val |-> 2147483647, errno |-> "ERANGE"]
      [] OTHER      -> [val |-> 0,  errno |-> "EINVAL"]

---------------------------------------------------------------------------
(* Messages on streams.err: the format and what is formatted into it. *)

Msg(format, with) == [msg |-> format, with |-> with]

---------------------------------------------------------------------------
(* job_control_str_to_mode *)

JobControlModes == {"job_control_t::all", "job_control_t::interactive", "job_control_t::none"}

\* A parse that does not tell upper case from lower case.
job_control_str_to_mode_IgnoresCase(mode) ==
    IF mode \in {"full", "Full"} THEN [val |-> "job_control_t::all", err |-> <<>>]
    ELSE IF mode = "interactive" THEN [val |-> "job_control_t::interactive", err |-> <<>>]
    ELSE IF mode = "none" THEN [val |-> "job_control_t::none", err |-> <<>>]
    ELSE [val |-> None, err |-> <<Msg("%ls: Invalid job control mode '%ls'\n", <<mode>>)>>]

job_control_str_to_mode(mode) ==
    IF mode = "full" THEN [val |-> "job_control_t::all", err |-> <<>>]
    ELSE IF mode = "interactive" THEN [val |-> "job_control_t::interactive", err |-> <<>>]
    ELSE IF mode = "none" THEN [val |-> "job_control_t::none", err |-> <<>>]
    ELSE [val |-> None, err |-> <<Msg("%ls: Invalid job control mode '%ls'\n", <<mode>>)>>]

---------------------------------------------------------------------------
(* status_cmd_opts_t and set_status_cmd *)

status_cmd_opts_t ==
    [level |-> 1, new_job_control_mode |-> None, status_cmd |-> STATUS_UNDEF,
     print_help |-> FALSE]

\* A guard that lets a later subcommand replace the recorded one.
set_status_cmd_Overwrites(o, sub_cmd) ==
    [ok |-> TRUE, opts |-> [o EXCEPT !.status_cmd = sub_cmd], err |-> <<>>]

\* A guard that refuses only a subcommand other than the recorded one.
set_status_cmd_AllowsRepeat(o, sub_cmd) ==
    IF o.status_cmd # STATUS_UNDEF /\ o.status_cmd # sub_cmd
    THEN [ok |-> FALSE, opts |-> o,
          err |-> <<Msg("BUILTIN_ERR_COMBO2_EXCLUSIVE",
                        <<enum_to_str(o.status_cmd), enum_to_str(sub_cmd)>>)>>]
    ELSE [ok |-> TRUE, opts |-> [o EXCEPT !.status_cmd = sub_cmd], err |-> <<>>]

\* The outcome of set_status_cmd: what it returns, opts after it, and what it
\* wrote to streams.err.
set_status_cmd(o, sub_cmd) ==
    IF o.status_cmd # STATUS_UNDEF
    THEN [ok |-> FALSE, opts |-> o,
          err |-> <<Msg("BUILTIN_ERR_COMBO2_EXCLUSIVE",
                        <<enum_to_str(o.status_cmd), enum_to_str(sub_cmd)>>)>>]
    ELSE [ok |-> TRUE, opts |-> [o EXCEPT !.status_cmd = sub_cmd], err |-> <<>>]

---------------------------------------------------------------------------
(* parse_cmd_opts: the cases of its switch. *)

\* The subcommand a flag stands for.
FlagSubcommand(opt) ==
    CASE opt = "STATUS_IS_FULL_JOB_CTRL"        -> "STATUS_IS_FULL_JOB_CTRL"
      [] opt = "STATUS_IS_INTERACTIVE_JOB_CTRL" -> "STATUS_IS_INTERACTIVE_JOB_CTRL"
      [] opt = "STATUS_IS_NO_JOB_CTRL"          -> "STATUS_IS_NO_JOB_CTRL"
      [] opt = "STATUS_FISH_PATH"               -> "STATUS_FISH_PATH"
      [] opt = "c" -> "STATUS_IS_COMMAND_SUB"
      [] opt = "b" -> "STATUS_IS_BLOCK"
      [] opt = "i" -> "STATUS_IS_INTERACTIVE"
      [] opt = "l" -> "STATUS_IS_LOGIN"
      [] opt = "f" -> "STATUS_FILENAME"
      [] opt = "n" -> "STATUS_LINE_NUMBER"
      [] opt = "j" -> "STATUS_SET_JOB_CONTROL"
      [] opt = "t" -> "STATUS_STACK_TRACE"

\* A case's outcome: it ends in break (the loop goes on) or returns a code.
Break(o) == [break |-> TRUE, ret |-> STATUS_CMD_OK, opts |-> o, err |-> <<>>]
Return_(code, o, e) == [break |-> FALSE, ret |-> code, opts |-> o, err |-> e]

\* case 'L' without the test for a negative level.
LevelCase_AcceptsNegative(o, woptarg) ==
    LET n == fish_wcstoi(woptarg)
        o1 == [o EXCEPT !.level = n.val]
    IN  IF n.errno = "ERANGE"
        THEN Return_(STATUS_INVALID_ARGS, o1,
                     <<Msg("%ls: Invalid level value '%ls'\n", <<woptarg>>)>>)
        ELSE IF n.errno # "0"
        THEN Return_(STATUS_INVALID_ARGS, o1, <<Msg("BUILTIN_ERR_NOT_NUMBER", <<woptarg>>)>>)
        ELSE Break(o1)

\* case 'L'
LevelCase(o, woptarg) ==
    LET n == fish_wcstoi(woptarg)
        o1 == [o EXCEPT !.level = n.val]
    IN  IF o1.level < 0 \/ n.errno = "ERANGE"
        THEN Return_(STATUS_INVALID_ARGS, o1,
                     <<Msg("%ls: Invalid level value '%ls'\n", <<woptarg>>)>>)
        ELSE IF n.errno # "0"
        THEN Return_(STATUS_INVALID_ARGS, o1, <<Msg("BUILTIN_ERR_NOT_NUMBER", <<woptarg>>)>>)
        ELSE Break(o1)

\* case 'j'
JobControlCase(o, woptarg) ==
    LET s == set_status_cmd(o, "STATUS_SET_JOB_CONTROL") IN
    IF ~s.ok THEN Return_(STATUS_CMD_ERROR, s.opts, s.err)
    ELSE LET job_mode == job_control_str_to_mode(woptarg) IN
         IF job_mode.val = None THEN Return_(STATUS_CMD_ERROR, s.opts, job_mode.err)
         ELSE Break([s.opts EXCEPT !.new_job_control_mode = job_mode.val])

\* the cases that only record a subcommand
SubcommandCase(o, opt) ==
    LET s == set_status_cmd(o, FlagSubcommand(opt)) IN
    IF ~s.ok THEN Return_(STATUS_CMD_ERROR, s.opts, s.err) ELSE Break(s.opts)

\* The body of the loop for what wgetopt_long returned; `tok` is argv[w.woptind - 1].
OptCase(o, w, tok) ==
    CASE w.opt = "L" -> LevelCase(o, w.woptarg)
      [] w.opt = "j" -> JobControlCase(o, w.woptarg)
      [] w.opt = "h" -> Break([o EXCEPT !.print_help = TRUE])
      [] w.opt = ":" -> Return_(STATUS_INVALID_ARGS, o, <<Msg("builtin_missing_argument", <<tok>>)>>)
      [] w.opt = "?" -> Return_(STATUS_INVALID_ARGS, o, <<Msg("builtin_unknown_option", <<tok>>)>>)
      [] OTHER -> SubcommandCase(o, w.opt)

---------------------------------------------------------------------------
(* The argument vectors the builtin is invoked with. *)

MkArgv(toks) == [i \in 0..Len(toks) |-> IF i = 0 THEN "status" ELSE toks[i]]

\* argv[from], ..., argv[argc - 1]
ArgsFrom(av, from) == [i \in 1..(Argc(av) - from) |-> av[from + i - 1]]

NoValueFlags ==
    {"-h", "-b", "-c", "-i", "-l", "-f", "-n", "-t", "--fish-path",
     "--is-full-job-control", "--is-interactive-job-control", "--is-no-job-control",
     "--is-login", "--is-interactive", "--is-block", "--is-command-substitution",
     "--bogus"}
ModeTokens == {"full", "interactive", "none", "Full"}
LevelTokens == {"0", "2", "-1", "x", "99999999999"}

FlagUnits ==
    {<<f>> : f \in NoValueFlags}
    \cup {<<"-j", m>> : m \in ModeTokens}
    \cup {<<"--job-control", m>> : m \in ModeTokens \ {"Full"}}
    \cup {<<"-L", n>> : n \in LevelTokens}
\* a flag whose value is missing: only as the last element
ValuelessUnits == {<<"-j">>, <<"-L">>}

Words == {status_enum_map[i].str : i \in DOMAIN status_enum_map} \cup {"bogus"}
ArgWords == {"full", "interactive", "none", "Full", "qmark-noglob", "is-login"}

RECURSIVE FlagsExactly(_)
FlagsExactly(k) ==
    IF k = 0 THEN {<<>>} ELSE {s \o u : s \in FlagsExactly(k - 1), u \in FlagUnits}

RECURSIVE ArgsExactly(_)
ArgsExactly(k) ==
    IF k = 0 THEN {<<>>} ELSE {s \o <<a>> : s \in ArgsExactly(k - 1), a \in ArgWords}

\* Flags, then possibly a word and arguments for it: at most MaxUnits units.
Argvs ==
    UNION {
        {f : f \in FlagsExactly(nf)}
        \cup {f \o u : f \in FlagsExactly(nf), u \in IF nf < MaxUnits THEN ValuelessUnits ELSE {}}
        \cup UNION { {f \o <<w>> \o a : f \in FlagsExactly(nf), w \in Words, a \in ArgsExactly(na)}
                     : na \in 0..(MaxUnits - nf - 1) }
      : nf \in 0..MaxUnits }

---------------------------------------------------------------------------
(* The state machine. *)

Init ==
    /\ job_control_mode \in JobControlModes
    /\ entry_mode = job_control_mode
    /\ pc = "idle"
    /\ argv = <<>>
    /\ woptind = 0
    /\ opts = status_cmd_opts_t
    /\ optind = 0
    /\ args = <<>>
    /\ retval = STATUS_CMD_OK
    /\ out = <<>>
    /\ err = <<>>
    /\ calls = <<>>

\* builtin_status is entered.
Invoke ==
    /\ pc = "idle"
    /\ \E toks \in Argvs : argv' = MkArgv(toks)
    /\ woptind' = 1
    /\ pc' = "parse"
    /\ UNCHANGED <<job_control_mode, entry_mode, opts, optind, args, retval, out, err, calls>>

\* What one iteration of the loop of parse_cmd_opts, or its end, does to the
\* locals of builtin_status, w being what wgetopt_long returned.
ParseCase(w) ==
    /\ IF w.opt = "-1"
       THEN /\ optind' = w.woptind
            /\ pc' = "resolve"
            /\ UNCHANGED <<woptind, opts, retval, err>>
       ELSE LET r == OptCase(opts, w, argv[w.woptind - 1]) IN
            /\ woptind' = w.woptind
            /\ opts' = r.opts
            /\ err' = r.err
            /\ IF r.break
               THEN pc' = "parse" /\ UNCHANGED retval
               ELSE pc' = "done" /\ retval' = r.ret
            /\ UNCHANGED optind
    /\ UNCHANGED <<entry_mode, argv, args, out, calls>>

\* A scan that hands a valid -j value to set_job_control_mode at once.
ParseOpt_SetsModeAtScan ==
    /\ pc = "parse"
    /\ LET w == wgetopt_long(argv, woptind) IN
       /\ ParseCase(w)
       /\ job_control_mode' =
             IF w.opt = "j" /\ job_control_str_to_mode(w.woptarg).val # None
             THEN job_control_str_to_mode(w.woptarg).val
             ELSE job_control_mode

\* One iteration of the loop of parse_cmd_opts, or its end.
ParseOpt ==
    /\ pc = "parse"
    /\ ParseCase(wgetopt_long(argv, woptind))
    /\ UNCHANGED job_control_mode

\* What builtin_status puts into BUILTIN_ERR_INVALID_SUBCMD.
InvalidSubcmdArg(av, oi) == av[1]

\* From the return of parse_cmd_opts to the switch: help, the subcommand word,
\* and the arguments that are left.
Resolve ==
    /\ pc = "resolve"
    /\ IF opts.print_help
       THEN /\ out' = << <<"builtin_print_help">> >>
            /\ retval' = STATUS_CMD_OK
            /\ pc' = "done"
            /\ UNCHANGED <<opts, optind, args, err>>
       ELSE IF optind < Argc(argv)
       THEN LET subcmd == str_to_enum(argv[optind]) IN
            IF subcmd # STATUS_UNDEF
            THEN LET s == set_status_cmd(opts, subcmd) IN
                 IF ~s.ok
                 THEN /\ err' = s.err
                      /\ retval' = STATUS_CMD_ERROR
                      /\ pc' = "done"
                      /\ UNCHANGED <<opts, optind, args, out>>
                 ELSE /\ opts' = s.opts
                      /\ optind' = optind + 1
                      /\ args' = ArgsFrom(argv, optind + 1)
                      /\ pc' = "dispatch"
                      /\ UNCHANGED <<retval, out, err>>
            ELSE /\ err' = <<Msg("BUILTIN_ERR_INVALID_SUBCMD", <<InvalidSubcmdArg(argv, optind)>>)>>
                 /\ retval' = STATUS_INVALID_ARGS
                 /\ pc' = "done"
                 /\ UNCHANGED <<opts, optind, args, out>>
       ELSE /\ args' = ArgsFrom(argv, optind)
            /\ pc' = "dispatch"
            /\ UNCHANGED <<opts, optind, retval, out, err>>
    /\ UNCHANGED <<job_control_mode, entry_mode, argv, woptind, calls>>

---------------------------------------------------------------------------
(* The switch on opts.status_cmd. *)

\* A call into the rest of the shell: the function, its argument, its answer.
Call(fn, arg, ret) == [fn |-> fn, arg |-> arg, ret |-> ret]

\* The switch is left with this exit code, output, errors and calls.
Leave(rv, o, e, c) ==
    /\ pc' = "done"
    /\ retval' = rv
    /\ out' = o
    /\ err' = e
    /\ calls' = c
    /\ UNCHANGED <<entry_mode, argv, woptind, optind, args>>

\* The condition of CHECK_FOR_UNEXPECTED_STATUS_ARGS.
UnexpectedArgs(a) == a # <<>>

\* The name CHECK_FOR_UNEXPECTED_STATUS_ARGS reports.
SubcmdStr(status_cmd) ==
    IF enum_to_str(status_cmd) = None THEN "default" ELSE enum_to_str(status_cmd)

ArgCountErr(subcmd_str, expected, a) ==
    <<Msg("BUILTIN_ERR_ARG_COUNT2", <<subcmd_str, expected, Len(a)>>)>>

\* CHECK_FOR_UNEXPECTED_STATUS_ARGS found arguments.
LeaveUnexpectedArgs ==
    /\ Leave(STATUS_INVALID_ARGS, <<>>, ArgCountErr(SubcmdStr(opts.status_cmd), 0, args), <<>>)
    /\ UNCHANGED <<job_control_mode, opts>>

\* How case STATUS_UNDEF words the job control mode.
JobControlText(mode) ==
    IF mode = "job_control_t::interactive" THEN "Only on interactive jobs"
    ELSE IF mode = "job_control_t::none" THEN "Never"
    ELSE "Always"

\* case STATUS_UNDEF
DispatchUndef ==
    /\ pc = "dispatch" /\ opts.status_cmd = STATUS_UNDEF
    /\ IF UnexpectedArgs(args) THEN LeaveUnexpectedArgs
       ELSE \E login \in BOOLEAN :
            /\ Leave(STATUS_CMD_OK,
                     << <<IF login THEN "This is a login shell\n" ELSE "This is not a login shell\n">>,
                        <<"Job control: %ls\n", JobControlText(job_control_mode)>>,
                        <<"parser.stack_trace()">> >>,
                     <<>>,
                     <<Call("get_login", None, login),
                       Call("get_job_control_mode", None, job_control_mode),
                       Call("parser.stack_trace", None, None)>>)
            /\ UNCHANGED <<job_control_mode, opts>>

\* set_job_control_mode(*opts.new_job_control_mode); break;
SetJobControlMode(o) ==
    /\ job_control_mode' = o.new_job_control_mode
    /\ opts' = o
    /\ Leave(STATUS_CMD_OK, <<>>, <<>>, <<Call("set_job_control_mode", o.new_job_control_mode, None)>>)

\* case STATUS_SET_JOB_CONTROL
DispatchSetJobControl ==
    /\ pc = "dispatch" /\ opts.status_cmd = "STATUS_SET_JOB_CONTROL"
    /\ IF opts.new_job_control_mode # None
       THEN IF UnexpectedArgs(args) THEN LeaveUnexpectedArgs ELSE SetJobControlMode(opts)
       ELSE IF Len(args) # 1
       THEN /\ Leave(STATUS_INVALID_ARGS, <<>>, ArgCountErr(enum_to_str(opts.status_cmd), 1, args), <<>>)
            /\ UNCHANGED <<job_control_mode, opts>>
       ELSE LET new_mode == job_control_str_to_mode(args[1]) IN
            IF new_mode.val = None
            THEN /\ Leave(STATUS_CMD_ERROR, <<>>, new_mode.err, <<>>)
                 /\ UNCHANGED <<job_control_mode, opts>>
            ELSE SetJobControlMode([opts EXCEPT !.new_job_control_mode = new_mode.val])

\* feature_metadata() (future_feature_flags.h): the names of the registered features.
feature_metadata == <<"stderr-nocaret", "qmark-noglob">>
FeatureNames == {feature_metadata[i] : i \in DOMAIN feature_metadata}

\* print_features: one line per feature, with feature_test's answer `set`.
print_features(set) ==
    [i \in DOMAIN feature_metadata |->
        <<"%-*ls%-3s %ls %ls\n", feature_metadata[i],
          IF set[feature_metadata[i]] THEN "on" ELSE "off">>]
FeatureTestCalls(set) ==
    [i \in DOMAIN feature_metadata |->
        Call("feature_test", feature_metadata[i], set[feature_metadata[i]])]

\* case STATUS_FEATURES
DispatchFeatures ==
    /\ pc = "dispatch" /\ opts.status_cmd = "STATUS_FEATURES"
    /\ \E set \in [FeatureNames -> BOOLEAN] :
          Leave(STATUS_CMD_OK, print_features(set), <<>>, FeatureTestCalls(set))
    /\ UNCHANGED <<job_control_mode, opts>>

\* A loop that starts from "off" instead of "not recognized".
TestFeature_StartsFromOff(name, set) ==
    LET hits == {i \in DOMAIN feature_metadata : feature_metadata[i] = name} IN
    IF hits = {} THEN TEST_FEATURE_OFF
    ELSE IF set[name] THEN TEST_FEATURE_ON ELSE TEST_FEATURE_OFF

\* The loop of case STATUS_TEST_FEATURE over feature_metadata(), `set` being
\* feature_test's answers: the first feature called `name` decides.
TestFeature(name, set) ==
    LET hits == {i \in DOMAIN feature_metadata : feature_metadata[i] = name} IN
    IF hits = {} THEN TEST_FEATURE_NOT_RECOGNIZED
    ELSE IF set[name] THEN TEST_FEATURE_ON ELSE TEST_FEATURE_OFF

\* args.size() != 1 of case STATUS_TEST_FEATURE
TestFeatureArgsWrong(a) == Len(a) # 1

\* case STATUS_TEST_FEATURE
DispatchTestFeature ==
    /\ pc = "dispatch" /\ opts.status_cmd = "STATUS_TEST_FEATURE"
    /\ IF TestFeatureArgsWrong(args)
       THEN Leave(STATUS_INVALID_ARGS, <<>>, ArgCountErr(enum_to_str(opts.status_cmd), 1, args), <<>>)
       ELSE \E set \in [FeatureNames -> BOOLEAN] :
            Leave(TestFeature(args[1], set), <<>>, <<>>,
                  IF args[1] \in FeatureNames
                  THEN <<Call("feature_test", args[1], set[args[1]])>> ELSE <<>>)
    /\ UNCHANGED <<job_control_mode, opts>>

\* wdirname and wbasename (wutil.cpp) on the file names the parser answers.
wdirname(fn) == IF fn = "/home/u/conf.fish" THEN "/home/u" ELSE "."
wbasename(fn) == IF fn = "/home/u/conf.fish" THEN "conf.fish" ELSE fn

\* What cases STATUS_BASENAME, STATUS_DIRNAME and STATUS_FILENAME print for
\* the answer `res` of parser.current_filename().
FilenameLine(status_cmd, res) ==
    LET fn == IF res # None THEN res ELSE "" IN
    IF fn # "" /\ status_cmd = "STATUS_DIRNAME" THEN wdirname(fn)
    ELSE IF fn # "" /\ status_cmd = "STATUS_BASENAME" THEN wbasename(fn)
    ELSE IF fn = "" THEN "Standard input"
    ELSE fn

\* case STATUS_BASENAME, STATUS_DIRNAME, STATUS_FILENAME
DispatchFilename ==
    /\ pc = "dispatch"
    /\ opts.status_cmd \in {"STATUS_BASENAME", "STATUS_DIRNAME", "STATUS_FILENAME"}
    /\ IF UnexpectedArgs(args) THEN LeaveUnexpectedArgs
       ELSE /\ \E res \in {None, "", "/home/u/conf.fish"} :
                  Leave(STATUS_CMD_OK, << <<"%ls\n", FilenameLine(opts.status_cmd, res)>> >>, <<>>,
                        <<Call("parser.current_filename", None, res)>>)
            /\ UNCHANGED <<job_control_mode, opts>>

\* The level case STATUS_FUNCTION hands to parser.get_function_name.
FunctionLevel(o) == o.level

\* case STATUS_FUNCTION
DispatchFunction ==
    /\ pc = "dispatch" /\ opts.status_cmd = "STATUS_FUNCTION"
    /\ IF UnexpectedArgs(args) THEN LeaveUnexpectedArgs
       ELSE /\ \E fn \in {None, "my_func"} :
                  Leave(STATUS_CMD_OK,
                        << <<"%ls\n", IF fn # None THEN fn ELSE "Not a function">> >>, <<>>,
                        <<Call("parser.get_function_name", FunctionLevel(opts), fn)>>)
            /\ UNCHANGED <<job_control_mode, opts>>

\* case STATUS_LINE_NUMBER
DispatchLineNumber ==
    /\ pc = "dispatch" /\ opts.status_cmd = "STATUS_LINE_NUMBER"
    /\ IF UnexpectedArgs(args) THEN LeaveUnexpectedArgs
       ELSE /\ \E lineno \in {0, 7} :
                  Leave(STATUS_CMD_OK, << <<"%d\n", lineno>> >>, <<>>,
                        <<Call("parser.get_lineno", None, lineno)>>)
            /\ UNCHANGED <<job_control_mode, opts>>

\* The probes that ask the session, and whom they ask.
SessionProbes ==
    {"STATUS_IS_INTERACTIVE", "STATUS_IS_COMMAND_SUB", "STATUS_IS_BLOCK",
     "STATUS_IS_BREAKPOINT", "STATUS_IS_LOGIN"}
SessionProbeFn(status_cmd) ==
    CASE status_cmd = "STATUS_IS_INTERACTIVE" -> "is_interactive_session"
      [] status_cmd = "STATUS_IS_COMMAND_SUB" -> "parser.libdata().is_subshell"
      [] status_cmd = "STATUS_IS_BLOCK"       -> "parser.is_block"
      [] status_cmd = "STATUS_IS_BREAKPOINT"  -> "parser.is_breakpoint"
      [] status_cmd = "STATUS_IS_LOGIN"       -> "get_login"

\* retval = get_login() in place of retval = !get_login().
SessionProbeRetval_LoginAsIs(status_cmd, answer) ==
    IF status_cmd = "STATUS_IS_LOGIN"
    THEN IF answer THEN 1 ELSE 0
    ELSE IF answer THEN 0 ELSE 1

\* retval of a session probe whose collaborator answered `answer`
SessionProbeRetval(status_cmd, answer) ==
    IF status_cmd = "STATUS_IS_LOGIN"
    THEN IF ~answer THEN 1 ELSE 0
    ELSE IF answer THEN 0 ELSE 1

\* case STATUS_IS_INTERACTIVE, STATUS_IS_COMMAND_SUB, STATUS_IS_BLOCK,
\* STATUS_IS_BREAKPOINT, STATUS_IS_LOGIN
DispatchSessionProbe ==
    /\ pc = "dispatch" /\ opts.status_cmd \in SessionProbes
    /\ IF UnexpectedArgs(args) THEN LeaveUnexpectedArgs
       ELSE /\ \E answer \in BOOLEAN :
                  Leave(SessionProbeRetval(opts.status_cmd, answer), <<>>, <<>>,
                        <<Call(SessionProbeFn(opts.status_cmd), None, answer)>>)
            /\ UNCHANGED <<job_control_mode, opts>>

\* The probes of the job control mode, and the mode each compares with.
JobControlProbes ==
    {"STATUS_IS_FULL_JOB_CTRL", "STATUS_IS_INTERACTIVE_JOB_CTRL", "STATUS_IS_NO_JOB_CTRL"}
JobControlProbeMode(status_cmd) ==
    CASE status_cmd = "STATUS_IS_FULL_JOB_CTRL"        -> "job_control_t::all"
      [] status_cmd = "STATUS_IS_INTERACTIVE_JOB_CTRL" -> "job_control_t::interactive"
      [] status_cmd = "STATUS_IS_NO_JOB_CTRL"          -> "job_control_t::none"

\* == in place of != .
JobControlProbeRetval_Equal(status_cmd, mode) ==
    IF mode = JobControlProbeMode(status_cmd) THEN 1 ELSE 0

\* retval = get_job_control_mode() != job_control_t::...
JobControlProbeRetval(status_cmd, mode) ==
    IF mode # JobControlProbeMode(status_cmd) THEN 1 ELSE 0

\* case STATUS_IS_FULL_JOB_CTRL, STATUS_IS_INTERACTIVE_JOB_CTRL, STATUS_IS_NO_JOB_CTRL
DispatchJobControlProbe ==
    /\ pc = "dispatch" /\ opts.status_cmd \in JobControlProbes
    /\ IF UnexpectedArgs(args) THEN LeaveUnexpectedArgs
       ELSE /\ Leave(JobControlProbeRetval(opts.status_cmd, job_control_mode), <<>>, <<>>,
                     <<Call("get_job_control_mode", None, job_control_mode)>>)
            /\ UNCHANGED <<job_control_mode, opts>>

\* case STATUS_STACK_TRACE
DispatchStackTrace ==
    /\ pc = "dispatch" /\ opts.status_cmd = "STATUS_STACK_TRACE"
    /\ IF UnexpectedArgs(args) THEN LeaveUnexpectedArgs
       ELSE /\ Leave(STATUS_CMD_OK, << <<"parser.stack_trace()">> >>, <<>>,
                     <<Call("parser.stack_trace", None, None)>>)
            /\ UNCHANGED <<job_control_mode, opts>>

\* case STATUS_CURRENT_CMD
DispatchCurrentCmd ==
    /\ pc = "dispatch" /\ opts.status_cmd = "STATUS_CURRENT_CMD"
    /\ IF UnexpectedArgs(args) THEN LeaveUnexpectedArgs
       ELSE /\ \E var \in {"", "ls"} :
                  Leave(STATUS_CMD_OK, << <<IF var # "" THEN var ELSE "program_name">> >>, <<>>,
                        <<Call("parser.libdata().status_vars.command", None, var)>>)
            /\ UNCHANGED <<job_control_mode, opts>>

\* case STATUS_CURRENT_COMMANDLINE
DispatchCurrentCommandline ==
    /\ pc = "dispatch" /\ opts.status_cmd = "STATUS_CURRENT_COMMANDLINE"
    /\ IF UnexpectedArgs(args) THEN LeaveUnexpectedArgs
       ELSE /\ \E var \in {"", "ls -l"} :
                  Leave(STATUS_CMD_OK, << <<var>> >>, <<>>,
                        <<Call("parser.libdata().status_vars.commandline", None, var)>>)
            /\ UNCHANGED <<job_control_mode, opts>>

\* The paths get_executable_path answers: none, a relative one, an absolute one.
ExecutablePaths == {"", "fish", "/usr/local/bin/fish"}
IsAbsolute(path) == path = "/usr/local/bin/fish"
\* wrealpath's answers for the absolute path
RealPaths == {None, "/opt/fish/bin/fish"}
\* what waccess returns: 0 when the file can be accessed, -1 when not
AccessReturns == {0, -1}

\* The line case STATUS_FISH_PATH prints for a path that is not empty, `real`
\* being wrealpath's answer and `access` what waccess(*real, F_OK) returned.
FishPathLine(path, real, access) ==
    IF IsAbsolute(path)
    THEN IF real # None /\ access # 0 THEN real ELSE path
    ELSE path

FishPathCalls(path, real, access) ==
    <<Call("get_executable_path", "fish", path)>>
    \o (IF IsAbsolute(path) THEN <<Call("wrealpath", path, real)>> ELSE <<>>)
    \o (IF IsAbsolute(path) /\ real # None THEN <<Call("waccess", real, access)>> ELSE <<>>)

\* case STATUS_FISH_PATH
DispatchFishPath ==
    /\ pc = "dispatch" /\ opts.status_cmd = "STATUS_FISH_PATH"
    /\ IF UnexpectedArgs(args) THEN LeaveUnexpectedArgs
       ELSE /\ \E path \in ExecutablePaths, real \in RealPaths, access \in AccessReturns :
                  IF path = ""
                  THEN Leave(STATUS_CMD_OK, <<>>,
                             <<Msg("%ls: Could not get executable path: '%s'\n", <<"strerror(errno)">>)>>,
                             FishPathCalls(path, real, access))
                  ELSE Leave(STATUS_CMD_OK, << <<FishPathLine(path, real, access)>> >>, <<>>,
                             FishPathCalls(path, real, access))
            /\ UNCHANGED <<job_control_mode, opts>>

\* builtin_status has returned: what it held is gone, the mode stays.
Return ==
    /\ pc = "done"
    /\ pc' = "idle"
    /\ entry_mode' = job_control_mode
    /\ argv' = <<>>
    /\ woptind' = 0
    /\ opts' = status_cmd_opts_t
    /\ optind' = 0
    /\ args' = <<>>
    /\ retval' = STATUS_CMD_OK
    /\ out' = <<>>
    /\ err' = <<>>
    /\ calls' = <<>>
    /\ UNCHANGED job_control_mode

Next ==
    \/ Invoke
    \/ ParseOpt
    \/ Resolve
    \/ DispatchUndef
    \/ DispatchSetJobControl
    \/ DispatchFeatures
    \/ DispatchTestFeature
    \/ DispatchFilename
    \/ DispatchFunction
    \/ DispatchLineNumber
    \/ DispatchSessionProbe
    \/ DispatchJobControlProbe
    \/ DispatchStackTrace
    \/ DispatchCurrentCmd
    \/ DispatchCurrentCommandline
    \/ DispatchFishPath
    \/ Return

Spec == Init /\ [][Next]_vars

---------------------------------------------------------------------------
(* What the claims speak of. *)

Options == short_options \cup long_options
OptionNamed(name) == CHOOSE o \in Options : o.name = name

\* The three mode tokens and the mode each stands for.
ValidModeTokens == {"full", "interactive", "none"}
ModeOfToken(tok) ==
    CASE tok = "full"        -> "job_control_t::all"
      [] tok = "interactive" -> "job_control_t::interactive"
      [] tok = "none"        -> "job_control_t::none"

\* A request for one subcommand, as the elements of argv that make it: a flag
\* (with a valid mode, for the job control flag), or a bare word.
FlagRequests ==
    {<<o.name>> : o \in {x \in Options : ~x.has_arg /\ x.val # "h"}}
    \cup {<<o.name, m>> : o \in {x \in Options : x.val = "j"}, m \in ValidModeTokens}
WordRequests == {<<status_enum_map[i].str>> : i \in DOMAIN status_enum_map}
RequestedBy(r) ==
    IF r \in WordRequests THEN str_to_enum(r[1]) ELSE FlagSubcommand(OptionNamed(r[1]).val)

\* The invocation failed with the exclusivity error and nothing else happened.
ExclusiveConflict ==
    /\ retval = STATUS_CMD_ERROR
    /\ Len(err) = 1 /\ err[1].msg = "BUILTIN_ERR_COMBO2_EXCLUSIVE"
    /\ out = <<>>
    /\ calls = <<>>
    /\ job_control_mode = entry_mode

\* The invocations that hold two requests for different subcommands and
\* nothing else, by how the two are asked for.
FlagFlagPairs ==
    {MkArgv(a \o b) : <<a, b>> \in
        {p \in FlagRequests \X FlagRequests : RequestedBy(p[1]) # RequestedBy(p[2])}}
FlagWordPairs ==
    {MkArgv(a \o b) : <<a, b>> \in
        {p \in FlagRequests \X WordRequests : RequestedBy(p[1]) # RequestedBy(p[2])}}
WordWordPairs ==
    {MkArgv(a \o b) : <<a, b>> \in
        {p \in WordRequests \X WordRequests : RequestedBy(p[1]) # RequestedBy(p[2])}}

\* C1 as claimed: an invocation that asks for two distinct subcommands, be it
\* by two flags, a flag and a word, or two words, fails with the exclusivity
\* error and the command-error code, runs nothing and leaves the job control
\* mode alone.
C1_AnyPairConflicts ==
    (pc = "done" /\ (argv \in FlagFlagPairs \/ argv \in FlagWordPairs \/ argv \in WordWordPairs))
        => ExclusiveConflict

\* C1 amended: the conflict is reported when the first of the two subcommands
\* is asked for by a flag (flag/flag, flag/word).  When both are words the
\* second is no request: it is the argument of the first, no exclusivity
\* error is written, and the job control mode stays as it was.  Whenever the
\* exclusivity error is written, the exit code is the command-error code,
\* nothing has run and the mode is unchanged.
C1_FlagFirstPairConflicts ==
    pc = "done" =>
        /\ (argv \in FlagFlagPairs \/ argv \in FlagWordPairs) => ExclusiveConflict
        /\ argv \in WordWordPairs =>
              /\ \A i \in DOMAIN err : err[i].msg # "BUILTIN_ERR_COMBO2_EXCLUSIVE"
              /\ opts.status_cmd = str_to_enum(argv[1])
              /\ args = <<argv[2]>>
              /\ job_control_mode = entry_mode
        /\ (\E i \in DOMAIN err : err[i].msg = "BUILTIN_ERR_COMBO2_EXCLUSIVE") => ExclusiveConflict

\* A flag and a word that ask for different subcommands have met.
C1_Witness ==
    /\ pc = "done"
    /\ argv = MkArgv(<<"--is-full-job-control", "is-login">>)
    /\ retval = STATUS_CMD_ERROR

\* C2: `status job-control M`, `status -j M` and `status --job-control M` all
\* exit 0 and leave the process-wide mode at M, for each of the three modes;
\* and a probe of the job control mode, by word or by flag, exits 0 when the
\* mode is the one it asks about and 1 when it is another, without changing it.
C2_JobControlForms ==
    pc = "done" =>
        /\ \A m \in ValidModeTokens :
              argv \in {MkArgv(<<"job-control", m>>), MkArgv(<<"-j", m>>),
                        MkArgv(<<"--job-control", m>>)} =>
                  /\ retval = 0 /\ err = <<>> /\ out = <<>>
                  /\ job_control_mode = ModeOfToken(m)
        /\ \A m \in ValidModeTokens, form \in {"word", "flag"} :
              LET name == CASE m = "full"        -> "is-full-job-control"
                            [] m = "interactive" -> "is-interactive-job-control"
                            [] m = "none"        -> "is-no-job-control"
                  flag == CASE m = "full"        -> "--is-full-job-control"
                            [] m = "interactive" -> "--is-interactive-job-control"
                            [] m = "none"        -> "--is-no-job-control"
              IN  argv = MkArgv(<<IF form = "word" THEN name ELSE flag>>) =>
                      /\ err = <<>> /\ out = <<>>
                      /\ retval = IF job_control_mode = ModeOfToken(m) THEN 0 ELSE 1
                      /\ job_control_mode = entry_mode

\* The flag form has changed the mode from full to none.
C2_Witness ==
    /\ pc = "done"
    /\ argv = MkArgv(<<"--job-control", "none">>)
    /\ entry_mode = "job_control_t::all"
    /\ job_control_mode = "job_control_t::none"

\* C3: the process-wide mode changes only in the step in which the job
\* control subcommand is dispatched and succeeds, and then to the mode asked
\* for; an invocation that ends with an error message, prints help or runs
\* another subcommand ends with the mode it began with.
C3_ModeChangesOnlyBySetJobControl ==
    /\ [](pc = "done" /\ (err # <<>> \/ opts.print_help \/ opts.status_cmd # "STATUS_SET_JOB_CONTROL")
            => job_control_mode = entry_mode)
    /\ [][job_control_mode' # job_control_mode =>
            /\ pc = "dispatch" /\ pc' = "done"
            /\ opts'.status_cmd = "STATUS_SET_JOB_CONTROL"
            /\ ~opts'.print_help
            /\ retval' = STATUS_CMD_OK /\ err' = <<>>
            /\ job_control_mode' = opts'.new_job_control_mode]_vars

\* A valid --job-control value for another mode was scanned, then the
\* invocation failed.
C3_Witness ==
    /\ pc = "done"
    /\ err # <<>>
    /\ retval # STATUS_CMD_OK
    /\ opts.new_job_control_mode \notin {None, job_control_mode}

\* The index at which the scan of the flags of `av`, begun at `i`, ends.
RECURSIVE EndOfFlags(_, _)
EndOfFlags(av, i) ==
    LET w == wgetopt_long(av, i) IN
    IF w.opt = "-1" THEN i ELSE EndOfFlags(av, w.woptind)

\* C4 as claimed: a subcommand other than the default, job-control and
\* test-feature (so features too) that is given arguments fails with the
\* argument count error (0 expected, the count given), exits with the
\* invalid-argument code and does nothing else.
C4_ArgumentsRefused ==
    (/\ pc = "done"
     /\ opts.status_cmd \notin {STATUS_UNDEF, "STATUS_SET_JOB_CONTROL", "STATUS_TEST_FEATURE"}
     /\ args # <<>>)
    => /\ retval = STATUS_INVALID_ARGS
       /\ err = <<Msg("BUILTIN_ERR_ARG_COUNT2", <<enum_to_str(opts.status_cmd), 0, Len(args)>>)>>
       /\ out = <<>>
       /\ calls = <<>>

\* C5 as claimed: when the scan of the flags ended without error, no help was
\* asked for, and the first element left names no subcommand, the invocation
\* fails with the invalid-argument code and the error names that element.
C5_ErrorNamesTheWord ==
    (/\ pc = "done"
     /\ ~opts.print_help
     /\ optind = EndOfFlags(argv, 1)
     /\ optind < Argc(argv)
     /\ str_to_enum(argv[optind]) = STATUS_UNDEF)
    => /\ retval = STATUS_INVALID_ARGS
       /\ err = <<Msg("BUILTIN_ERR_INVALID_SUBCMD", <<argv[optind]>>)>>

\* C6 as claimed: fish-path prints the canonical path when the path is
\* absolute, wrealpath answered and the access check on its answer succeeded
\* (waccess returned 0); the path itself when wrealpath or the access check
\* failed, or the path is relative; and only an error message, still exiting
\* 0, when there is no path.
C6_FishPathLine ==
    (pc = "done" /\ calls # <<>> /\ calls[1].fn = "get_executable_path")
    => LET path == calls[1].ret
           real == IF Len(calls) >= 2 THEN calls[2].ret ELSE None
           accessible == Len(calls) >= 3 /\ calls[3].ret = 0
       IN  /\ retval = 0
           /\ path = "" => (out = <<>> /\ err # <<>>)
           /\ (path # "" /\ ~IsAbsolute(path)) => (out = << <<path>> >> /\ err = <<>>)
           /\ (IsAbsolute(path) /\ real # None /\ accessible) => (out = << <<real>> >> /\ err = <<>>)
           /\ (IsAbsolute(path) /\ ~(real # None /\ accessible)) => (out = << <<path>> >> /\ err = <<>>)

\* C7: test-feature with other than one argument fails with the argument
\* count error (1 expected) and the invalid-argument code; with one argument
\* it writes nothing and exits 0 when that is the name of a registered feature
\* that is on, 1 when of one that is off, 2 when of none.
C7_TestFeature ==
    (pc = "done" /\ opts.status_cmd = "STATUS_TEST_FEATURE")
    => IF Len(args) # 1
       THEN /\ retval = STATUS_INVALID_ARGS
            /\ err = <<Msg("BUILTIN_ERR_ARG_COUNT2", <<"test-feature", 1, Len(args)>>)>>
            /\ out = <<>> /\ calls = <<>>
       ELSE /\ out = <<>> /\ err = <<>>
            /\ args[1] \notin FeatureNames => (retval = 2 /\ calls = <<>>)
            /\ args[1] \in FeatureNames =>
                  /\ calls = <<Call("feature_test", args[1], calls[1].ret)>>
                  /\ retval = IF calls[1].ret THEN 0 ELSE 1

\* test-feature has found a registered feature to be off.
C7_Witness ==
    /\ pc = "done"
    /\ argv = MkArgv(<<"test-feature", "qmark-noglob">>)
    /\ retval = 1

\* The probes, and for each the bare word and the flags that ask for it.
ProbeForms ==
    { [cmd |-> "STATUS_IS_INTERACTIVE",          word |-> "is-interactive",             flags |-> {"-i", "--is-interactive"}],
      [cmd |-> "STATUS_IS_LOGIN",                word |-> "is-login",                   flags |-> {"-l", "--is-login"}],
      [cmd |-> "STATUS_IS_COMMAND_SUB",          word |-> "is-command-substitution",    flags |-> {"-c", "--is-command-substitution"}],
      [cmd |-> "STATUS_IS_BLOCK",                word |-> "is-block",                   flags |-> {"-b", "--is-block"}],
      [cmd |-> "STATUS_IS_BREAKPOINT",           word |-> "is-breakpoint",              flags |-> {}],
      [cmd |-> "STATUS_IS_FULL_JOB_CTRL",        word |-> "is-full-job-control",        flags |-> {"--is-full-job-control"}],
      [cmd |-> "STATUS_IS_INTERACTIVE_JOB_CTRL", word |-> "is-interactive-job-control", flags |-> {"--is-interactive-job-control"}],
      [cmd |-> "STATUS_IS_NO_JOB_CTRL",          word |-> "is-no-job-control",          flags |-> {"--is-no-job-control"}] }

\* Whom a probe asks, and the state that makes it true.
ProbedFn(cmd) ==
    CASE cmd = "STATUS_IS_INTERACTIVE" -> "is_interactive_session"
      [] cmd = "STATUS_IS_LOGIN"       -> "get_login"
      [] cmd = "STATUS_IS_COMMAND_SUB" -> "parser.libdata().is_subshell"
      [] cmd = "STATUS_IS_BLOCK"       -> "parser.is_block"
      [] cmd = "STATUS_IS_BREAKPOINT"  -> "parser.is_breakpoint"
      [] OTHER                         -> "get_job_control_mode"
ProbedStateIsTrue(cmd) ==
    /\ Len(calls) = 1
    /\ calls[1].fn = ProbedFn(cmd)
    /\ CASE cmd = "STATUS_IS_FULL_JOB_CTRL"        -> calls[1].ret = "job_control_t::all"
         [] cmd = "STATUS_IS_INTERACTIVE_JOB_CTRL" -> calls[1].ret = "job_control_t::interactive"
         [] cmd = "STATUS_IS_NO_JOB_CTRL"          -> calls[1].ret = "job_control_t::none"
         [] OTHER                                  -> calls[1].ret = TRUE

\* C8: a probe asked for by its bare word alone, or by one of its flags
\* alone, asks the session exactly once, writes nothing, and exits 0 when what
\* it asks about is true and 1 when it is not: the word and the flag give the
\* same result.
C8_Probes ==
    pc = "done" =>
        \A p \in ProbeForms :
            argv \in {MkArgv(<<t>>) : t \in {p.word} \cup p.flags} =>
                /\ opts.status_cmd = p.cmd
                /\ out = <<>> /\ err = <<>>
                /\ Len(calls) = 1 /\ calls[1].fn = ProbedFn(p.cmd)
                /\ retval = IF ProbedStateIsTrue(p.cmd) THEN 0 ELSE 1

\* `status --is-login` in a login session.
C8_Witness ==
    /\ pc = "done"
    /\ argv = MkArgv(<<"--is-login">>)
    /\ calls = <<Call("get_login", None, TRUE)>>
    /\ retval = 0

\* The level an argv gives: the value of its last level flag, 1 without one.
LevelFlagNames == {"-L", "--level"}
LevelIndices(av) == {i \in 1..(Argc(av) - 2) : av[i] \in LevelFlagNames}
NonNegativeNumerals == {"0", "1", "2"}
NumeralValue(tok) ==
    CASE tok = "0" -> 0 [] tok = "1" -> 1 [] tok = "2" -> 2 [] tok = "-1" -> -1
GivenLevel(av) ==
    IF LevelIndices(av) = {} THEN 1
    ELSE LET last == CHOOSE i \in LevelIndices(av) : \A j \in LevelIndices(av) : j <= i
         IN  IF av[last + 1] \in NonNegativeNumerals THEN NumeralValue(av[last + 1]) ELSE -1

\* C9: when the switch is reached the level is not negative and is the one
\* the last level flag gave (1 without a flag); the function subcommand hands
\* exactly it to parser.get_function_name, and line-number asks for the line
\* without a level.  A scan that stops at a level flag stops with the
\* invalid-argument code, at a value that is no non-negative number, with one
\* message for a negative number and another for what is no number.
C9_Level ==
    /\ pc = "dispatch" => (opts.level >= 0 /\ opts.level = GivenLevel(argv))
    /\ (pc = "done" /\ calls # <<>> /\ calls[1].fn = "parser.get_function_name")
          => (calls[1].arg >= 0 /\ calls[1].arg = GivenLevel(argv))
    /\ (pc = "done" /\ calls # <<>> /\ calls[1].fn = "parser.get_lineno")
          => calls[1].arg = None
    /\ (pc = "done" /\ optind = 0 /\ woptind >= 3 /\ argv[woptind - 2] \in LevelFlagNames)
          => LET v == argv[woptind - 1] IN
             /\ v \notin NonNegativeNumerals
             /\ retval = STATUS_INVALID_ARGS
             /\ v = "-1" => err = <<Msg("%ls: Invalid level value '%ls'\n", <<v>>)>>
             /\ v = "x" => err = <<Msg("BUILTIN_ERR_NOT_NUMBER", <<v>>)>>
    /\ (pc = "done" /\ \E f \in LevelFlagNames, v \in {"-1", "x"} : argv = MkArgv(<<f, v>>))
          => (optind = 0 /\ woptind = 3 /\ retval = STATUS_INVALID_ARGS)

\* `status -L 2 current-function` has asked for the function two levels up.
C9_Witness ==
    /\ pc = "done"
    /\ argv = MkArgv(<<"-L", "2", "current-function">>)
    /\ Len(calls) = 1 /\ calls[1].fn = "parser.get_function_name" /\ calls[1].arg = 2

\* What the parse of the mode tokens does, seen from outside: `status
\* job-control t`, `status -j t` and `status --job-control t` set the mode a
\* valid token stands for, and for any other token fail with the command-error
\* code and the invalid-mode message that holds the token, the mode unchanged.
ParseAcceptsExactlyTheThree ==
    pc = "done" =>
        \A t \in ArgWords \cup ModeTokens :
            argv \in {MkArgv(<<"job-control", t>>), MkArgv(<<"-j", t>>),
                      MkArgv(<<"--job-control", t>>)} =>
                IF t \in ValidModeTokens
                THEN retval = 0 /\ err = <<>> /\ job_control_mode = ModeOfToken(t)
                ELSE /\ retval = STATUS_CMD_ERROR
                     /\ err = <<Msg("%ls: Invalid job control mode '%ls'\n", <<t>>)>>
                     /\ job_control_mode = entry_mode

Candidate ==
    CASE pc = "parse" /\ woptind < Argc(argv) /\ argv[woptind] \in {o.name : o \in Options} ->
            LET o == OptionNamed(argv[woptind]) IN
            IF o.val \in {"L", "h"} \/ (o.has_arg /\ woptind + 1 >= Argc(argv))
            THEN None ELSE FlagSubcommand(o.val)
      [] pc = "resolve" /\ ~opts.print_help /\ optind < Argc(argv)
            /\ str_to_enum(argv[optind]) # STATUS_UNDEF ->
            str_to_enum(argv[optind])
      [] OTHER -> None

\* C11: within an invocation opts.status_cmd changes only from STATUS_UNDEF,
\* and then to the subcommand that was offered (the only other change is the
\* end of the invocation); a subcommand offered while none is recorded is
\* recorded; one offered while one is recorded, the same one too, leaves the
\* record as it is and ends the invocation with the exclusivity error that
\* names both and the command-error code.  No invocation is idle with a
\* recorded subcommand.
C11_StatusCmdSetOnce ==
    /\ [](pc = "idle" => opts.status_cmd = STATUS_UNDEF)
    /\ [][/\ opts'.status_cmd # opts.status_cmd =>
                \/ pc = "done" /\ pc' = "idle"
                \/ /\ opts.status_cmd = STATUS_UNDEF
                   /\ Candidate # None
                   /\ opts'.status_cmd = Candidate
          /\ (Candidate # None /\ opts.status_cmd = STATUS_UNDEF) =>
                opts'.status_cmd = Candidate
          /\ (Candidate # None /\ opts.status_cmd # STATUS_UNDEF) =>
                /\ opts'.status_cmd = opts.status_cmd
                /\ pc' = "done"
                /\ retval' = STATUS_CMD_ERROR
                /\ err' = <<Msg("BUILTIN_ERR_COMBO2_EXCLUSIVE",
                                <<enum_to_str(opts.status_cmd), enum_to_str(Candidate)>>)>>
         ]_vars

\* The subcommand a flag recorded was asked for again, by its word.
C11_Witness ==
    /\ pc = "done"
    /\ argv = MkArgv(<<"-c", "is-command-substitution">>)
    /\ opts.status_cmd = "STATUS_IS_COMMAND_SUB"
    /\ retval = STATUS_CMD_ERROR
    /\ err = <<Msg("BUILTIN_ERR_COMBO2_EXCLUSIVE",
                   <<"is-command-substitution", "is-command-substitution">>)>>

====
